---------------------------- MODULE Spec2Model ----------------------------
(***************************************************************************)
(* Model of src/app.py, a Streamlit script that polls a quote feed and     *)
(* audits the order book of one instrument.                                *)
(*                                                                         *)
(* A Streamlit script is re-executed from its first line on every rerun;   *)
(* only st.session_state survives.  One execution is modelled as two       *)
(* consecutive steps, in program order:                                    *)
(*   pc = "sidebar" : lines 60-67  (widgets, init_vault, RESET button)     *)
(*   pc = "engine"  : lines 164-226 (time gate, fetch, update, kernel)     *)
(* and "idle" is the script having ended outside trading hours, waiting    *)
(* for a widget interaction to start the next execution.                   *)
(*                                                                         *)
(* Numbers.  The program computes in binary64.  Feed values are modelled   *)
(* as integers and every derived quantity as a fixed-point integer with    *)
(* Scale units per 1.0; a division rounds down to the next unit.  The      *)
(* 1e-9 added to denominators is modelled as Eps, the smallest positive    *)
(* fixed-point quantity.                                                   *)
(***************************************************************************)
EXTENDS Integers, Sequences, FiniteSets, TLC

VARIABLES
    pc,             \* position of the script execution
    session_state,  \* st.session_state: a record whose keys may be absent
    target_code,    \* value of the text input read by the current execution
    data,           \* the script's `data` (line 165)
    res,            \* the script's `res` (line 175)
    profit_space,   \* the script's `profit_space` (line 179)
    discarded       \* history variable: the number of price samples the reset
                    \* of the current execution threw away, -1 when the
                    \* current execution kept the vault it found

vars == <<pc, session_state, target_code, data, res, profit_space, discarded>>

----------------------------------------------------------------------------
(* Bounds of the model and constants of the program *)

\* units per 1.0 of the fixed-point representation of binary64 values
Scale == 100
\* the 1e-9 of lines 48 and 93: the smallest positive fixed-point quantity
Eps == 1
\* Spec delivers at most this many snapshots between two resets
MaxLen == 3
\* the [-100:] of lines 169 and 172
HistCap == 100
\* span of both exponential averages (line 36 default, line 50)
Period == 10

\* Python's None
None == [none |-> TRUE]

\* a name the current execution has not bound: every execution starts with
\* an empty namespace
Unbound == [unbound |-> TRUE]

\* an empty st.session_state (first execution, or after clear())
EmptyState == [k \in {} |-> 0]

\* values the user can type into the text input; "601898" is its default
Codes == {"601898", "000001"}

----------------------------------------------------------------------------
(* Raw feed fields: the text the provider sends.  A field is either the    *)
(* text of a number or text float() rejects.                               *)

Num(n) == [txt |-> "num", val |-> n]
Junk == [txt |-> "junk", val |-> 0]

\* safe_float: float(str(x).replace(',', '')), 0.0 when float() raises
safe_float(x) == IF x.txt = "num" THEN x.val ELSE 0

Level(p, q) == [price |-> p, qty |-> q]

----------------------------------------------------------------------------
(* Sequence helpers *)

RECURSIVE SumSeq(_)
SumSeq(s) == IF s = <<>> THEN 0 ELSE Head(s) + SumSeq(Tail(s))

RECURSIVE MinSeq(_)
MinSeq(s) ==
    IF Len(s) = 1 THEN s[1]
    ELSE LET m == MinSeq(Tail(s)) IN IF s[1] <= m THEN s[1] ELSE m

RECURSIVE MaxSeq(_)
MaxSeq(s) ==
    IF Len(s) = 1 THEN s[1]
    ELSE LET m == MaxSeq(Tail(s)) IN IF s[1] >= m THEN s[1] ELSE m

Abs(x) == IF x < 0 THEN -x ELSE x

\* LastN with the slice written s[:n]: the oldest n elements are kept
LastN_head(s, n) == IF Len(s) <= n THEN s ELSE SubSeq(s, 1, n)

\* the Python slice s[-n:]
LastN(s, n) == IF Len(s) <= n THEN s ELSE SubSeq(s, Len(s) - n + 1, Len(s))


----------------------------------------------------------------------------
(* Accessors of st.session_state *)

current_code == session_state.current_code
price_history == session_state.price_history
imb_history == session_state.imb_history
cvd_history == session_state.cvd_history
cvd == session_state.cvd

\* `"current_code" in st.session_state`
Mounted(ss) == "current_code" \in DOMAIN ss

\* the state init_vault writes (lines 24-28)
FreshVault(code) ==
    [current_code |-> code, price_history |-> <<>>, imb_history |-> <<>>,
     cvd_history |-> <<>>, cvd |-> 0]

\* init_vault with line 25 missing: a switch keeps the price history
init_vault_stale_prices(ss, code) ==
    IF ~Mounted(ss) THEN FreshVault(code)
    ELSE IF ss.current_code # code
         THEN [FreshVault(code) EXCEPT !.price_history = ss.price_history]
    ELSE ss

\* init_vault with line 26 missing: a switch keeps the volume weights
init_vault_stale_imb(ss, code) ==
    IF ~Mounted(ss) THEN FreshVault(code)
    ELSE IF ss.current_code # code
         THEN [FreshVault(code) EXCEPT !.imb_history = ss.imb_history]
    ELSE ss

\* init_vault(target_code), lines 22-29, as a function of the session state
init_vault(ss, code) ==
    IF ~Mounted(ss) \/ ss.current_code # code THEN FreshVault(code) ELSE ss

----------------------------------------------------------------------------
(* 1. The numerical toolbox, lines 36-51 *)

\* one step of pandas' ewm(span, adjust=False): alpha = 2 / (span + 1)
EwmStep(prev, x, span) == ((span - 1) * prev + 2 * x) \div (span + 1)

\* ema1 and ema2 of lines 38-39 after element acc.i + 1 of the series
ZemaStep(acc, d, period) ==
    LET e1 == EwmStep(acc.ema1, d[acc.i + 1] * Scale, period)
    IN  [i |-> acc.i + 1, ema1 |-> e1, ema2 |-> EwmStep(acc.ema2, e1, period)]

\* the series folded from element acc.i + 1 to element hi, left to right (the
\* halving only bounds the depth of the evaluation)
RECURSIVE ZemaRun(_, _, _, _)
ZemaRun(acc, d, hi, period) ==
    IF acc.i >= hi THEN acc
    ELSE IF acc.i + 1 = hi THEN ZemaStep(acc, d, period)
    ELSE ZemaRun(ZemaRun(acc, d, (acc.i + hi) \div 2, period), d, hi, period)

\* calculate_zema(data, period=10): (ema1 + (ema1 - ema2)).iloc[-1].
\* Only called on a non-empty series (institutional_kernel raises otherwise).
calculate_zema(d, period) ==
    LET first == [i |-> 1, ema1 |-> d[1] * Scale, ema2 |-> d[1] * Scale]
        last == ZemaRun(first, d, Len(d), period)
    IN  last.ema1 + (last.ema1 - last.ema2)

\* vwap[i] = pv_cum[i] / (v_cum[i] + 1e-9), line 48
Vwap(pv_cum, v_cum) == (pv_cum * Scale * Scale) \div (v_cum * Scale + Eps)

\* lines 46-50 after element acc.i + 1.  pandas' ewm(span=10) with the default
\* adjust=True is the ratio of num[i] = x[i] + (1 - alpha) * num[i-1] and
\* den[i] = 1 + (1 - alpha) * den[i-1]
ZvwapStep(acc, prices, volumes) ==
    LET pv == acc.pv_cum + prices[acc.i + 1] * volumes[acc.i + 1]
        v == acc.v_cum + volumes[acc.i + 1]
        x == Vwap(pv, v)
    IN  [i |-> acc.i + 1, pv_cum |-> pv, v_cum |-> v, vwap |-> x,
         num |-> x + ((Period - 1) * acc.num) \div (Period + 1),
         den |-> Scale + ((Period - 1) * acc.den) \div (Period + 1)]

RECURSIVE ZvwapRun(_, _, _, _)
ZvwapRun(acc, prices, volumes, hi) ==
    IF acc.i >= hi THEN acc
    ELSE IF acc.i + 1 = hi THEN ZvwapStep(acc, prices, volumes)
    ELSE ZvwapRun(ZvwapRun(acc, prices, volumes, (acc.i + hi) \div 2),
                  prices, volumes, hi)

\* calculate_zvwap(prices, volumes): (vwap * 2 - vwap_ema).iloc[-1]
calculate_zvwap(prices, volumes) ==
    LET zero == [i |-> 0, pv_cum |-> 0, v_cum |-> 0, vwap |-> 0,
                 num |-> 0, den |-> 0]
        last == ZvwapRun(zero, prices, volumes, Len(prices))
    IN  last.vwap * 2 - (last.num * Scale) \div last.den

----------------------------------------------------------------------------
(* 2. institutional_kernel, lines 84-160 *)

\* what a call returns when it raises instead.  (numpy would broadcast a
\* series of one element against a longer one instead of raising.)
Raised(exc) == [raised |-> exc]

\* get_intent(v, avg_v, side), lines 118-121, with avg_v = total / n
get_intent(v, total, n, side) ==
    IF v * n > total * 3 THEN (IF side = "ask" THEN "block" ELSE "prop")
    ELSE IF v * n * 5 < total THEN "probe"
    ELSE "stable"

\* the buy reasons of lines 134-139 (and 108-109)
b_reasons(curr_p, zvwap, zema, weibi, cvd_t) ==
    (IF curr_p * Scale <= zvwap /\ weibi > 10 * Scale
        THEN <<"below_zvwap">> ELSE <<>>)
    \o (IF cvd_t > 0 /\ zema > curr_p * Scale THEN <<"momentum">> ELSE <<>>)

\* the sell reasons of lines 143-148 (and 112-113)
s_reasons(curr_p, zema, weibi, total_bid_v, total_ask_v) ==
    (IF curr_p * Scale >= zema /\ weibi < -10 * Scale
        THEN <<"blocked">> ELSE <<>>)
    \o (IF total_ask_v * 2 > total_bid_v * 3 THEN <<"suppressed">> ELSE <<>>)

\* rescore with lines 132 and 141 missing: the second pass adds to the first
rescore_keep(first_pass, reasons) == first_pass + 50 * Len(reasons)

\* lines 132-139 and 141-148: the score is set to 0 again, discarding the
\* first pass of lines 107-113, and gains 50 per reason
rescore(first_pass, reasons) == 0 + 50 * Len(reasons)

institutional_kernel(quote, df_bids, df_asks, ss) ==
    IF ss.price_history = <<>> THEN Raised("IndexError")  \* .iloc[-1], line 40
    ELSE IF Len(ss.imb_history) # Len(ss.price_history)
         THEN Raised("ValueError")  \* prices * volumes, line 47
    ELSE
    LET curr_p == safe_float(quote.last_price)
        bid_v == [i \in DOMAIN df_bids |-> safe_float(df_bids[i].qty) * 100]
        ask_v == [i \in DOMAIN df_asks |-> safe_float(df_asks[i].qty) * 100]
        bid_p == [i \in DOMAIN df_bids |-> safe_float(df_bids[i].price)]
        ask_p == [i \in DOMAIN df_asks |-> safe_float(df_asks[i].price)]
        total_bid_v == SumSeq(bid_v)
        total_ask_v == SumSeq(ask_v)
        weicha == total_bid_v - total_ask_v
        weibi == ((weicha * Scale * Scale)
                     \div ((total_bid_v + total_ask_v) * Scale + Eps)) * 100
        zema == calculate_zema(ss.price_history, Period)
        zvwap == calculate_zvwap(ss.price_history, ss.imb_history)
        p_floor == IF weibi < -20 * Scale
                   THEN (MinSeq(bid_p) * Scale * (1000 * Scale - Abs(weibi)))
                            \div (1000 * Scale)
                   ELSE bid_p[Len(bid_p)] * Scale
        cvd_t == IF ss.cvd_history # <<>>
                 THEN ss.cvd_history[Len(ss.cvd_history)] ELSE 0
        p_peak == IF cvd_t > 0
                  THEN MaxSeq(ask_p) * Scale
                           + (MaxSeq(ask_p) * cvd_t) \div 100000000
                  ELSE ask_p[Len(ask_p)] * Scale
        br == b_reasons(curr_p, zvwap, zema, weibi, cvd_t)
        sr == s_reasons(curr_p, zema, weibi, total_bid_v, total_ask_v)
        b_first == 50 * Len(br)
        s_first == 50 * Len(sr)
    IN  [p_floor |-> p_floor, p_peak |-> p_peak, zvwap |-> zvwap, zema |-> zema,
         weibi |-> weibi, weicha |-> weicha,
         b_score |-> rescore(b_first, br), s_score |-> rescore(s_first, sr),
         curr_p |-> curr_p,
         bid_depth |-> SumSeq([i \in DOMAIN bid_v |-> bid_v[i] * bid_p[i]]),
         ask_depth |-> SumSeq([i \in DOMAIN ask_v |-> ask_v[i] * ask_p[i]]),
         ask_intents |-> [i \in DOMAIN ask_v |->
                             get_intent(ask_v[i], total_ask_v, Len(ask_v), "ask")],
         bid_intents |-> [i \in DOMAIN bid_v |->
                             get_intent(bid_v[i], total_bid_v, Len(bid_v), "bid")],
         b_msg |-> IF br # <<>> THEN br ELSE <<"silent">>,
         s_msg |-> IF sr # <<>> THEN sr ELSE <<"clear">>]

----------------------------------------------------------------------------
(* 3. The execution engine, lines 164-226 *)

\* a binary64 value that may be non-finite
Finite(v) == [kind |-> "finite", val |-> v]
Inf == [kind |-> "inf", val |-> 0]
NaN == [kind |-> "nan", val |-> 0]

\* numpy's float64 / float for a >= 0: a zero divisor gives inf or nan and a
\* RuntimeWarning, it does not raise
Float64Div(a, b) ==
    IF b # 0 THEN Finite((a * Scale) \div b)
    ELSE IF a = 0 THEN NaN ELSE Inf

\* profit_space = (res['p_peak'] / res['curr_p'] - 1) * 100, line 179
ProfitSpace(r) ==
    LET q == Float64Div(r.p_peak, r.curr_p * Scale)
    IN  IF q.kind = "finite" THEN Finite((q.val - Scale) * 100) ELSE q

\* Appended with a weight stored only for a positive volume
Appended_skip_zero(ss, quote) ==
    [ss EXCEPT
        !.price_history = LastN(Append(@, safe_float(quote.last_price)), HistCap),
        !.imb_history = IF safe_float(quote.volume) > 0
                        THEN LastN(Append(@, safe_float(quote.volume)), HistCap)
                        ELSE @]

\* lines 168-172: both histories take one element and keep their last HistCap
Appended(ss, quote) ==
    [ss EXCEPT
        !.price_history = LastN(Append(@, safe_float(quote.last_price)), HistCap),
        !.imb_history = LastN(Append(@, safe_float(quote.volume)), HistCap)]

\* lines 60-66 then 164: the sidebar reads the text input and mounts the vault
\* for it; RESET was not clicked
SidebarRun ==
    /\ pc = "sidebar"
    /\ \E code \in Codes :
        /\ target_code' = code
        /\ session_state' = init_vault(session_state, code)
        /\ discarded' = IF ~Mounted(session_state) THEN discarded
                         ELSE IF current_code # code THEN Len(price_history)
                         ELSE -1
    /\ pc' = "engine"
    /\ data' = Unbound /\ res' = Unbound /\ profit_space' = Unbound

\* line 67: RESET was clicked; after init_vault the whole session state is
\* cleared and st.rerun() starts the script again
SidebarReset ==
    /\ pc = "sidebar"
    /\ \E code \in Codes : target_code' = code
    /\ session_state' = EmptyState
    /\ discarded' = IF Mounted(session_state) THEN Len(price_history)
                     ELSE discarded
    /\ pc' = "sidebar"
    /\ data' = Unbound /\ res' = Unbound /\ profit_space' = Unbound

\* lines 164, 225-226: outside trading hours nothing is fetched and the
\* script ends
EngineClosed ==
    /\ pc = "engine"
    /\ pc' = "idle"
    /\ UNCHANGED <<session_state, target_code, data, res, profit_space, discarded>>

\* EngineNoData with line 166 testing nothing: the missing quote is read as
\* zeros and appended
EngineNoData_defaults ==
    /\ pc = "engine"
    /\ data' = None
    /\ session_state' =
           [session_state EXCEPT
               !.price_history = LastN(Append(@, 0), HistCap),
               !.imb_history = LastN(Append(@, 0), HistCap)]
    /\ pc' = "sidebar"
    /\ UNCHANGED <<target_code, res, profit_space, discarded>>

\* lines 165-166, 223-224: fetch_data returned None; sleep, then rerun
EngineNoData ==
    /\ pc = "engine"
    /\ data' = None
    /\ pc' = "sidebar"
    /\ UNCHANGED <<session_state, target_code, res, profit_space, discarded>>

\* lines 165-224 for a delivered quote; `res` holds what the kernel returned
\* or raised
EngineUpdate(quote) ==
    /\ pc = "engine"
    /\ data' = quote
    /\ session_state' = Appended(session_state, quote)
    /\ res' = institutional_kernel(quote, quote.bids, quote.asks, session_state')
    /\ IF "raised" \in DOMAIN res'
       THEN profit_space' = Unbound /\ pc' = "idle"  \* the exception ends the script
       ELSE profit_space' = ProfitSpace(res') /\ pc' = "sidebar"
    /\ UNCHANGED <<target_code, discarded>>

\* a widget interaction starts the ended script again
Interact ==
    /\ pc = "idle"
    /\ pc' = "sidebar"
    /\ UNCHANGED <<session_state, target_code, data, res, profit_space, discarded>>

----------------------------------------------------------------------------
(* The feed *)

Book(p, q) == [i \in 1..5 |-> Level(p[i], q[i])]

BidBooks ==
    {Book(<<Num(10), Num(9), Num(8), Num(7), Num(6)>>,
          <<Num(20), Num(1), Num(1), Num(1), Num(1)>>),
     Book(<<Num(10), Num(9), Num(8), Num(7), Num(6)>>,
          <<Num(1), Num(1), Num(1), Num(1), Num(1)>>),
     Book(<<Junk, Junk, Junk, Junk, Junk>>, <<Junk, Junk, Junk, Junk, Junk>>)}

AskBooks ==
    {Book(<<Num(11), Num(12), Num(13), Num(14), Num(15)>>,
          <<Num(20), Num(1), Num(1), Num(1), Num(0)>>),
     Book(<<Num(11), Num(12), Num(13), Num(14), Num(15)>>,
          <<Num(3), Num(1), Num(1), Num(1), Num(1)>>),
     Book(<<Junk, Junk, Junk, Junk, Junk>>, <<Junk, Junk, Junk, Junk, Junk>>)}

\* what fetch_data returns when it delivers, lines 76-80
Quote(p, v, b, a) == [last_price |-> p, volume |-> v, bids |-> b, asks |-> a]

Quotes ==
    {Quote(p, v, b, a) : p \in {Num(0), Num(10), Num(11)},
                         v \in {Junk, Num(1), Num(2)},
                         b \in BidBooks, a \in AskBooks}

Init ==
    /\ pc = "sidebar"
    /\ session_state = EmptyState
    /\ target_code = "601898"
    /\ data = Unbound /\ res = Unbound /\ profit_space = Unbound
    /\ discarded = 0

\* at most MaxLen quotes are delivered between two resets
Update ==
    \E quote \in Quotes :
        /\ pc = "engine"
        /\ Len(price_history) < MaxLen
        /\ EngineUpdate(quote)

Next ==
    \/ SidebarRun
    \/ SidebarReset
    \/ EngineClosed
    \/ EngineNoData
    \/ Update
    \/ Interact

Spec == Init /\ [][Next]_vars

----------------------------------------------------------------------------
(* A second feed, for the histories at their capacity: the price repeats a  *)
(* cycle of CapPeriod values, so that a window of HistCap elements is told  *)
(* from the next one, and any number of quotes is delivered.                *)

CapPeriod == 3

CapQuote(k) ==
    Quote(Num(9 + k), Num(1 + k),
          Book(<<Num(10), Num(9), Num(8), Num(7), Num(6)>>,
               <<Num(1 + 2 * k), Num(1), Num(1), Num(1), Num(1)>>),
          Book(<<Num(11), Num(12), Num(13), Num(14), Num(15)>>,
               <<Num(3), Num(1), Num(1), Num(1), Num(1)>>))

\* the quote that may follow the history: the cycle starts anew after a reset
CapFeed(ss) ==
    IF ss.price_history = <<>> THEN {CapQuote(0)}
    ELSE {CapQuote((ss.price_history[Len(ss.price_history)] - 9 + 1) % CapPeriod)}

UpdateCap ==
    \E k \in 0..(CapPeriod - 1) :
        /\ pc = "engine"
        /\ CapQuote(k) \in CapFeed(session_state)
        /\ EngineUpdate(CapQuote(k))

NextCap ==
    \/ SidebarRun
    \/ SidebarReset
    \/ EngineClosed
    \/ EngineNoData
    \/ UpdateCap
    \/ Interact

SpecCap == Init /\ [][NextCap]_vars

----------------------------------------------------------------------------
(* Properties *)

\* an engine step that processed a delivered quote
Processed == pc = "engine" /\ data' # None /\ data' # Unbound

Last(h) == h[Len(h)]

Max(a, b) == IF a >= b THEN a ELSE b

\* h2 is h after x arrived, the oldest element leaving a full h
Evicts(h, x, h2) ==
    h2 = IF Len(h) < HistCap THEN Append(h, x) ELSE Append(Tail(h), x)

\* C1: whenever institutional_kernel has returned, its buy score and its sell
\* score are both within 0..100.
C1_ScoresBounded ==
    res # Unbound =>
        /\ "b_score" \in DOMAIN res
        /\ res.b_score \in 0..100
        /\ res.s_score \in 0..100

\* C1 witness: a kernel result whose sell score is at the upper end
C1_Witness == res # Unbound /\ res.s_score = 100 /\ res.b_score = 0

\* C2: a sidebar pass that finds another code mounted (or nothing mounted,
\* as RESET leaves it) hands the engine empty price, imbalance and CVD
\* histories and cvd = 0, whatever was stored before; RESET itself leaves no
\* stored state; and the engine only ever runs on the vault of the code just
\* read, so the reset is in effect before the next append.
C2_ResetBeforeUpdate ==
    [][/\ (/\ pc = "sidebar" /\ pc' = "engine"
           /\ (~Mounted(session_state) \/ current_code # target_code'))
          => /\ price_history' = <<>> /\ cvd' = 0
             /\ imb_history' = <<>> /\ cvd_history' = <<>>
       /\ (pc = "sidebar" /\ pc' = "sidebar") => ~Mounted(session_state')
       /\ pc' = "engine"
          => Mounted(session_state') /\ current_code' = target_code']_vars

\* C2 witness: the engine is about to run on a vault whose reset threw
\* price samples away
C2_Witness ==
    /\ pc = "engine" /\ discarded > 0
    /\ price_history = <<>> /\ cvd = 0

\* C3: the first quote processed after a reset leaves the stored state and the
\* kernel result that a session just created and fed that quote alone has.
C3_ResetPurity ==
    [][(Processed /\ discarded >= 0) =>
          LET alone == [current_code |-> target_code,
                        price_history |-> <<safe_float(data'.last_price)>>,
                        imb_history |-> <<safe_float(data'.volume)>>,
                        cvd_history |-> <<>>, cvd |-> 0]
          IN  /\ session_state' = alone
              /\ res' = institutional_kernel(data', data'.bids, data'.asks, alone)
              /\ profit_space' = ProfitSpace(res')]_vars

\* C3 witness: a quote was processed right after a reset that threw price
\* samples away
C3_Witness ==
    /\ pc = "sidebar" /\ discarded > 0
    /\ res # Unbound /\ Len(price_history) = 1

\* C4: an engine pass whose fetch returned None changes no field of the
\* session state and does not run the kernel.
C4_FailedFetchFrame ==
    [][(pc = "engine" /\ data' = None) =>
          /\ session_state' = session_state
          /\ res' = Unbound /\ profit_space' = Unbound]_vars

\* C4 witness: a fetch failed on a vault that holds history
C4_Witness ==
    /\ data = None /\ Mounted(session_state)
    /\ Len(price_history) >= 2 /\ Len(imb_history) >= 2

\* C5: no history is ever longer than HistCap, and a processed quote appends
\* its value at the end, the oldest element leaving when the history is full.
C5_Capacity ==
    [][Mounted(session_state') =>
          /\ Len(price_history') <= HistCap
          /\ Len(imb_history') <= HistCap
          /\ Len(cvd_history') <= HistCap
          /\ Processed =>
                /\ Evicts(price_history, safe_float(data'.last_price),
                          price_history')
                /\ Evicts(imb_history, safe_float(data'.volume),
                          imb_history')]_vars

\* C5 witness: a full price history whose first sample has been evicted (the
\* feed of SpecCap starts every vault at 9)
C5_Witness ==
    /\ Mounted(session_state) /\ data # Unbound /\ data # None
    /\ Len(price_history) = HistCap /\ price_history[1] # 9

\* C7 as stated: the weight a processed quote adds is the rise of the
\* cumulative volume over the previous quote's, 0 when it fell.
C7_TickVolume ==
    [][(Processed /\ imb_history # <<>>) =>
          Last(imb_history') =
              Max(0, safe_float(data'.volume) - Last(imb_history))]_vars

\* C8 as stated: no pass raises and no division of a pass meets a zero
\* denominator.
C8_NoDegenerateDivision ==
    /\ res # Unbound => "raised" \notin DOMAIN res
    /\ profit_space # Unbound => profit_space.kind = "finite"

\* C9 as stated: once a quote has been processed since the last reset,
\* cvd_history is non-empty and ends with the current cvd.
C9_CvdTracked ==
    (Mounted(session_state) /\ price_history # <<>>) =>
        (cvd_history # <<>> /\ Last(cvd_history) = cvd)

\* C10: price_history and imb_history always have the same length, and
\* whenever institutional_kernel has run it found price_history non-empty.
C10_HistoriesAligned ==
    /\ Mounted(session_state) => Len(price_history) = Len(imb_history)
    /\ res # Unbound =>
          /\ "raised" \notin DOMAIN res
          /\ Len(price_history) >= 1

\* C10 witness: the kernel has run on a vault holding several samples, one of
\* them with a volume of 0
C10_Witness ==
    /\ res # Unbound /\ Len(price_history) >= 2
    /\ \E i \in 1..Len(imb_history) : imb_history[i] = 0

============================================================================
